---- MODULE Spec2Model ----
(***************************************************************************)
(* DryftLink: the worker's per-check pipeline.  One check job records a    *)
(* SiteCheck, runs the uptime state machine (updateUptimeState) and, for a *)
(* successful check, captures a snapshot (createSnapshot: fingerprint,     *)
(* diff against the site's latest snapshot, change level).                 *)
(***************************************************************************)
EXTENDS Integers, Sequences, FiniteSets, TLC

\* ------------------------------------------------------------------ bounds
NumSites == 2
MaxChecks == 4
MaxThreshold == 2
MaxUrls == 2
MaxListLen == 2
MaxScripts == 4
MaxConcurrency == 2
MaxJobs == 2
MaxHandled == 3
MaxSiteIds == 3
MaxTokens == 2
MaxReplies == 3
MaxClock == 4
\* expiresIn: "7d", in seconds of the model clock
ExpiresIn == 3

Sites == 1..NumSites

\* ------------------------------------------------------------- enum types
SiteCheckStatus == {"SUCCESS", "ERROR", "TIMEOUT", "BLOCKED"}
UptimeState == {"UP", "DOWN"}
ChangeLevel == {"NONE", "MINOR", "MODERATE", "MAJOR"}

\* previousSnapshotId of a snapshot without predecessor (SQL NULL)
NullId == 0
\* a null object reference (no previous snapshot)
Null == [null |-> TRUE]
\* column default of Site.confirmationsRequired: the value of every site
\* created through the API
DefaultConfirmationsRequired == 2
\* column defaults of SiteUptimeState.consecutiveFailures / consecutiveSuccesses
DefaultConsecutiveFailures == 0
DefaultConsecutiveSuccesses == 0
\* WORKER_CONCURRENCY: z.coerce.number().int().min(1).max(10).default(1)
DefaultWorkerConcurrency == 1
\* SiteCreate: checkInterval ... .default(5)
DefaultCheckInterval == 5

VARIABLES
  site,             \* Site rows: siteId -> its columns
  siteCheck,        \* SiteCheck rows in creation order
  siteUptimeState,  \* SiteUptimeState rows: a function on the sites that have one
  uptimeEvent,      \* UptimeEvent rows in creation order
  siteSnapshot,     \* SiteSnapshot rows in creation order (id = position)
  jobResult,        \* how the last job ended: completed with its return value, or failed
  concurrency,      \* env.WORKER_CONCURRENCY
  jobs,             \* the jobs the worker has taken, with their position and locals
  jobData,          \* job.data of the last job handled
  response,         \* outcome of a HEAD probe and the time it took
  checkResult,      \* the check result made of it, once computed
  candidate,        \* determineState(checkResult.status), once computed
  current,          \* computeDiff argument: current fingerprint and size
  previous,         \* computeDiff argument: previous fingerprint and size
  diffResult,       \* computeDiff(current, previous), once computed
  swappedResult,    \* computeDiff(previous, current), once computed
  repeatableJobs,   \* the queue's repeatable jobs (dryftQueue.getRepeatableJobs())
  siteIdCounter,    \* the number of Site rows created so far (ids are never reused)
  clock,            \* the time in seconds (Date.now() / 1000)
  tokens,           \* the tokens signed so far, by their payload
  blacklist,        \* the Redis keys blacklist:<jti> with the time they expire
  replies           \* the replies of the API to authenticated requests, in order

vars == <<site, siteCheck, siteUptimeState, uptimeEvent, siteSnapshot, jobResult,
          concurrency, jobs, jobData, response, checkResult, candidate,
          current, previous, diffResult, swappedResult,
          repeatableJobs, siteIdCounter, clock, tokens, blacklist, replies>>
dbVars == <<site, siteCheck, siteUptimeState, uptimeEvent, siteSnapshot, jobResult>>
diffVars == <<current, previous, diffResult, swappedResult>>
workerVars == <<concurrency, jobs>>
probeVars == <<response, checkResult, candidate>>
scheduleVars == <<repeatableJobs, siteIdCounter>>
authVars == <<clock, tokens, blacklist, replies>>
apiVars == <<scheduleVars, authVars>>

\* ------------------------------------------------------------ page content
\* An HTML body is the sequence of its elements that the selectors can see,
\* together with its length in bytes.  A missing attribute is "".
Elem(tag, src, rel, href, name, property, content) ==
  [tag |-> tag, src |-> src, rel |-> rel, href |-> href,
   name |-> name, property |-> property, content |-> content]
Script(src) == Elem("script", src, "", "", "", "", "")
Stylesheet(href) == Elem("link", "", "stylesheet", href, "", "", "")
Img(src) == Elem("img", src, "", "", "", "", "")
Meta(name, property, content) == Elem("meta", "", "", "", name, property, content)

\* $(selector).each((_, el) => { const v = $(el).attr(..); if (v) list.push(v) })
\* on the attribute values in document order; the value is "" for an element
\* the selector does not match
Truthy(v) == v # ""
EachPush(values) == SelectSeq(values, Truthy)

\* Array.prototype.includes
Includes(list, x) == \E i \in 1..Len(list) : list[i] = x

\* obj[key] = value on a JS object kept as its sequence of <<key, value>>
\* entries in insertion order: an existing key keeps its position.
SetProperty(obj, key, value) ==
  IF \E i \in 1..Len(obj) : obj[i][1] = key
  THEN [i \in 1..Len(obj) |-> IF obj[i][1] = key THEN <<key, value>> ELSE obj[i]]
  ELSE Append(obj, <<key, value>>)

RECURSIVE CollectMeta(_, _)
CollectMeta(elems, metaTags) ==
  IF elems = <<>> THEN metaTags
  ELSE LET el == Head(elems)
           name == IF el.name # "" THEN el.name ELSE el.property
           content == el.content
       IN CollectMeta(Tail(elems),
            IF el.tag = "meta" /\ name # "" /\ content # ""
            THEN SetProperty(metaTags, name, content) ELSE metaTags)

extractFingerprint(html) ==
  LET elems == html.elems
      n == Len(elems)
  IN [scripts |-> EachPush([i \in 1..n |-> IF elems[i].tag = "script" THEN elems[i].src ELSE ""]),
      styles |-> EachPush([i \in 1..n |->
                   IF elems[i].tag = "link" /\ elems[i].rel = "stylesheet"
                   THEN elems[i].href ELSE ""]),
      images |-> EachPush([i \in 1..n |-> IF elems[i].tag = "img" THEN elems[i].src ELSE ""]),
      metaTags |-> CollectMeta(elems, <<>>)]

\* Buffer.byteLength(htmlBody, "utf8")
byteLength(html) == html.bytes

\* ------------------------------------------------------------ computeDiff
\* faulty variant of ListAdded: the lists are compared as wholes
ListAdded_IfDifferent(currentList, prevList) ==
  IF currentList = prevList THEN <<>> ELSE currentList
\* current.filter(s => !prev.includes(s))
ListAdded(currentList, prevList) ==
  SelectSeq(currentList, LAMBDA s : ~Includes(prevList, s))
\* faulty variant of ListRemoved: the negation is dropped
ListRemoved_Kept(currentList, prevList) ==
  SelectSeq(prevList, LAMBDA s : Includes(currentList, s))
\* prev.filter(s => !current.includes(s))
ListRemoved(currentList, prevList) ==
  SelectSeq(prevList, LAMBDA s : ~Includes(currentList, s))

\* JSON.stringify of an object with string values: its keys and values in
\* insertion order
JSONstringify(obj) ==
  [i \in 1..(2 * Len(obj)) |-> obj[(i + 1) \div 2][IF i % 2 = 1 THEN 1 ELSE 2]]

Abs(x) == IF x < 0 THEN -x ELSE x

\* Math.abs((htmlSizeDiff / previousSize) * 100) > percent, in exact
\* arithmetic; for previousSize = 0 the quotient is NaN (never greater) when
\* htmlSizeDiff = 0 and an infinity (always greater) otherwise.
SizeChangeOver(htmlSizeDiff, previousSize, percent) ==
  Abs(htmlSizeDiff) * 100 > percent * previousSize

\* faulty variant of SomethingChanged: removed images are not looked at
SomethingChanged_NoImagesRemoved(scriptsAdded, scriptsRemoved, stylesAdded, stylesRemoved, imagesAdded, imagesRemoved, metaTagsChanged) ==
  \/ Len(scriptsAdded) > 0 \/ Len(scriptsRemoved) > 0
  \/ Len(stylesAdded) > 0 \/ Len(stylesRemoved) > 0
  \/ Len(imagesAdded) > 0
  \/ metaTagsChanged
\* the condition of "if (scriptsAdded.length > 0 || ... || metaTagsChanged)"
SomethingChanged(scriptsAdded, scriptsRemoved, stylesAdded, stylesRemoved, imagesAdded, imagesRemoved, metaTagsChanged) ==
  \/ Len(scriptsAdded) > 0 \/ Len(scriptsRemoved) > 0
  \/ Len(stylesAdded) > 0 \/ Len(stylesRemoved) > 0
  \/ Len(imagesAdded) > 0 \/ Len(imagesRemoved) > 0
  \/ metaTagsChanged

\* faulty variant of changeLevelOf: MAJOR needs more than 4 added scripts
changeLevelOf_FiveScripts(somethingChanged, htmlSizeDiff, previousSize, scriptsAddedLength) ==
  IF somethingChanged
  THEN IF SizeChangeOver(htmlSizeDiff, previousSize, 50) \/ scriptsAddedLength > 4
       THEN "MAJOR"
       ELSE IF SizeChangeOver(htmlSizeDiff, previousSize, 10) \/ scriptsAddedLength > 0
            THEN "MODERATE"
            ELSE "MINOR"
  ELSE "NONE"
\* let changeLevel = "NONE"; if (something changed) { MAJOR / MODERATE / MINOR }
changeLevelOf(somethingChanged, htmlSizeDiff, previousSize, scriptsAddedLength) ==
  IF somethingChanged
  THEN IF SizeChangeOver(htmlSizeDiff, previousSize, 50) \/ scriptsAddedLength > 3
       THEN "MAJOR"
       ELSE IF SizeChangeOver(htmlSizeDiff, previousSize, 10) \/ scriptsAddedLength > 0
            THEN "MODERATE"
            ELSE "MINOR"
  ELSE "NONE"

\* faulty variant of NoPreviousDiff: a page without predecessor counts as changed
NoPreviousDiff_Minor ==
  [scriptsAdded |-> <<>>, scriptsRemoved |-> <<>>,
   stylesAdded |-> <<>>, stylesRemoved |-> <<>>,
   imagesAdded |-> <<>>, imagesRemoved |-> <<>>,
   metaTagsChanged |-> FALSE, htmlSizeDiff |-> 0, changeLevel |-> "MINOR"]
\* the result of "if (!previous) return {...}"
NoPreviousDiff ==
  [scriptsAdded |-> <<>>, scriptsRemoved |-> <<>>,
   stylesAdded |-> <<>>, stylesRemoved |-> <<>>,
   imagesAdded |-> <<>>, imagesRemoved |-> <<>>,
   metaTagsChanged |-> FALSE, htmlSizeDiff |-> 0, changeLevel |-> "NONE"]

computeDiff(cur, currentHtmlSize, prevArg) ==
  IF prevArg = Null
  THEN NoPreviousDiff
  ELSE
    LET prev == prevArg.fingerprint
        scriptsAdded == ListAdded(cur.scripts, prev.scripts)
        scriptsRemoved == ListRemoved(cur.scripts, prev.scripts)
        stylesAdded == ListAdded(cur.styles, prev.styles)
        stylesRemoved == ListRemoved(cur.styles, prev.styles)
        imagesAdded == ListAdded(cur.images, prev.images)
        imagesRemoved == ListRemoved(cur.images, prev.images)
        metaTagsChanged == JSONstringify(cur.metaTags) # JSONstringify(prev.metaTags)
        htmlSizeDiff == currentHtmlSize - prevArg.htmlSize
        changeLevel ==
          changeLevelOf(SomethingChanged(scriptsAdded, scriptsRemoved, stylesAdded,
                                         stylesRemoved, imagesAdded, imagesRemoved,
                                         metaTagsChanged),
                        htmlSizeDiff, prevArg.htmlSize, Len(scriptsAdded))
    IN [scriptsAdded |-> scriptsAdded, scriptsRemoved |-> scriptsRemoved,
        stylesAdded |-> stylesAdded, stylesRemoved |-> stylesRemoved,
        imagesAdded |-> imagesAdded, imagesRemoved |-> imagesRemoved,
        metaTagsChanged |-> metaTagsChanged, htmlSizeDiff |-> htmlSizeDiff,
        changeLevel |-> changeLevel]

\* ---------------------------------------------------------- createSnapshot
\* faulty variant of findFirstSnapshot: the where clause is missing
findFirstSnapshot_AnySite(siteId) ==
  IF siteSnapshot = <<>> THEN Null ELSE siteSnapshot[Len(siteSnapshot)]
\* prisma.siteSnapshot.findFirst({ where: { siteId }, orderBy: { createdAt: "desc" } })
\* rows are kept in creation order, so the newest row of the site is the last
findFirstSnapshot(siteId) ==
  LET ids == {i \in 1..Len(siteSnapshot) : siteSnapshot[i].siteId = siteId} IN
  IF ids = {} THEN Null
  ELSE siteSnapshot[CHOOSE i \in ids : \A j \in ids : j <= i]

\* the row createSnapshot writes, given the previous snapshot it found
SnapshotData(id, siteId, htmlBody, previousSnapshot) ==
  LET htmlSize == byteLength(htmlBody)
      currentFingerprint == extractFingerprint(htmlBody)
      diff == IF previousSnapshot # Null
              THEN computeDiff(currentFingerprint, htmlSize,
                     [fingerprint |-> extractFingerprint(previousSnapshot.htmlBody),
                      htmlSize |-> previousSnapshot.htmlSize])
              ELSE computeDiff(currentFingerprint, htmlSize, Null)
  IN [id |-> id,
      siteId |-> siteId,
      htmlBody |-> htmlBody,
      htmlSize |-> htmlSize,
      previousSnapshotId |-> IF previousSnapshot # Null THEN previousSnapshot.id ELSE NullId,
      diffSummary |-> [f \in DOMAIN diff \ {"changeLevel"} |-> diff[f]],
      changeLevel |-> diff.changeLevel]

\* faulty variant of createSnapshot: the site's newest snapshot is overwritten
createSnapshot_Upsert(siteId, htmlBody) ==
  LET previousSnapshot == findFirstSnapshot(siteId) IN
  siteSnapshot' =
    IF previousSnapshot = Null
    THEN Append(siteSnapshot, SnapshotData(Len(siteSnapshot) + 1, siteId, htmlBody, Null))
    ELSE [siteSnapshot EXCEPT ![previousSnapshot.id] =
            SnapshotData(previousSnapshot.id, siteId, htmlBody, previousSnapshot)]
createSnapshot(siteId, htmlBody) ==
  siteSnapshot' = Append(siteSnapshot,
    SnapshotData(Len(siteSnapshot) + 1, siteId, htmlBody, findFirstSnapshot(siteId)))

\* ------------------------------------------------------- updateUptimeState
\* faulty variant of determineState: a probe that timed out counts as UP
determineState_TimeoutUp(status) ==
  IF status = "SUCCESS" \/ status = "TIMEOUT" THEN "UP" ELSE "DOWN"
\* faulty variant of determineState: a blocked probe counts as UP
determineState_BlockedUp(status) ==
  IF status = "SUCCESS" \/ status = "BLOCKED" THEN "UP" ELSE "DOWN"
determineState(status) == IF status = "SUCCESS" THEN "UP" ELSE "DOWN"

\* faulty variant of InitializeState: both counters start at 1
InitializeState_BothCounters(siteId, newState, status, now) ==
  /\ siteUptimeState' =
       [s \in DOMAIN siteUptimeState \cup {siteId} |->
          IF s = siteId
          THEN [state |-> newState,
                consecutiveFailures |-> 1,
                consecutiveSuccesses |-> 1,
                lastStatus |-> status,
                changedAt |-> now]
          ELSE siteUptimeState[s]]
  /\ UNCHANGED uptimeEvent
\* faulty variant of InitializeState: a first check that is DOWN records a transition
InitializeState_WithEvent(siteId, newState, status, now) ==
  /\ siteUptimeState' =
       [s \in DOMAIN siteUptimeState \cup {siteId} |->
          IF s = siteId
          THEN [state |-> newState,
                consecutiveFailures |-> DefaultConsecutiveFailures,
                consecutiveSuccesses |-> DefaultConsecutiveSuccesses,
                lastStatus |-> status,
                changedAt |-> now]
          ELSE siteUptimeState[s]]
  /\ uptimeEvent' =
       IF newState = "DOWN"
       THEN Append(uptimeEvent, [siteId |-> siteId, fromState |-> "UP", toState |-> newState,
                                 reasonStatus |-> status, checkedAt |-> now])
       ELSE uptimeEvent
\* Case 1: first check - prisma.siteUptimeState.create; the columns the call
\* does not name take their defaults
InitializeState(siteId, newState, status, now) ==
  /\ siteUptimeState' =
       [s \in DOMAIN siteUptimeState \cup {siteId} |->
          IF s = siteId
          THEN [state |-> newState,
                consecutiveFailures |-> DefaultConsecutiveFailures,
                consecutiveSuccesses |-> DefaultConsecutiveSuccesses,
                lastStatus |-> status,
                changedAt |-> now]
          ELSE siteUptimeState[s]]
  /\ UNCHANGED uptimeEvent

\* faulty variant of RecordTransition: the event's fromState is the new state
RecordTransition_FromNew(siteId, newState, status, now) ==
  /\ uptimeEvent' = Append(uptimeEvent,
       [siteId |-> siteId,
        fromState |-> newState,
        toState |-> newState,
        reasonStatus |-> status,
        checkedAt |-> now])
  /\ siteUptimeState' = [siteUptimeState EXCEPT
       ![siteId].state = newState,
       ![siteId].lastStatus = status,
       ![siteId].changedAt = now]
\* prisma.uptimeEvent.create of case 2
CreateTransitionEvent(siteId, fromState, newState, status, now) ==
  uptimeEvent' = Append(uptimeEvent,
    [siteId |-> siteId,
     fromState |-> fromState,
     toState |-> newState,
     reasonStatus |-> status,
     checkedAt |-> now])
\* prisma.siteUptimeState.update of case 2
UpdateStateRow(siteId, newState, status, now) ==
  siteUptimeState' = [siteUptimeState EXCEPT
    ![siteId].state = newState,
    ![siteId].lastStatus = status,
    ![siteId].changedAt = now]
\* Case 2: state changed - prisma.uptimeEvent.create, then
\* prisma.siteUptimeState.update
RecordTransition(siteId, newState, status, now) ==
  /\ CreateTransitionEvent(siteId, siteUptimeState[siteId].state, newState, status, now)
  /\ UpdateStateRow(siteId, newState, status, now)

\* Case 3: state unchanged - update the last check details only
UpdateLastCheck(siteId, status) ==
  /\ siteUptimeState' = [siteUptimeState EXCEPT ![siteId].lastStatus = status]
  /\ UNCHANGED uptimeEvent

updateUptimeState(siteId, status, now) ==
  LET newState == determineState(status) IN
  IF siteId \notin DOMAIN siteUptimeState
  THEN InitializeState(siteId, newState, status, now)
  ELSE IF siteUptimeState[siteId].state # newState
       THEN RecordTransition(siteId, newState, status, now)
       ELSE UpdateLastCheck(siteId, status)

\* ------------------------------------------------------------ the check job
\* The page the monitored sites serve (the test website's small state)
SmallBody ==
  [elems |-> <<Meta("description", "", "small"), Script("a.js"), Img("pic0.jpg")>>,
   bytes |-> 100]
Bodies == {SmallBody}

\* a string of the given length that is the id of site (NullId: of no site)
StringValue(length, siteId) == [type |-> "string", length |-> length, site |-> siteId]
\* { siteId } as the API enqueues it for a site
JobDataOf(siteId) == [siteId |-> StringValue(1, siteId)]
\* no job has been handled yet
NoData == [none |-> TRUE]
\* no probe has been made
NoResponse == [none |-> TRUE]
\* no job has ended yet
NoJob == [outcome |-> "none"]
\* throw new Error(message): the job failed with this reason
FailedWith(message) == [outcome |-> "failed", error |-> message]
\* faulty variant of Completed: the first processor's return { ok: true }
Completed_Ok(status) == [outcome |-> "completed", ok |-> TRUE]
\* return { status, httpStatus, durationMs }: the job completed
Completed(status) == [outcome |-> "completed", status |-> status]
\* the processor threw: BullMQ marks the job failed (worker.on("failed"))
Failed == [outcome |-> "failed"]

\* faulty variant of ProcessJob: the snapshot is captured whatever the probe said
ProcessJob_SnapshotAlways(siteId, status, htmlOk, htmlBody) ==
  /\ Len(siteCheck) < MaxChecks
  /\ siteCheck' = Append(siteCheck, [siteId |-> siteId, status |-> status])
  /\ updateUptimeState(siteId, status, Len(siteCheck) + 1)
  /\ IF htmlOk
     THEN createSnapshot(siteId, htmlBody)
     ELSE UNCHANGED siteSnapshot
  /\ jobResult' = Completed(status)
  /\ jobData' = JobDataOf(siteId)
  /\ UNCHANGED <<site, diffVars, apiVars, workerVars, probeVars>>
\* faulty variant of ProcessJob: a failed snapshot capture fails the job
ProcessJob_SnapshotFailureFails(siteId, status, htmlOk, htmlBody) ==
  /\ Len(siteCheck) < MaxChecks
  /\ siteCheck' = Append(siteCheck, [siteId |-> siteId, status |-> status])
  /\ updateUptimeState(siteId, status, Len(siteCheck) + 1)
  /\ IF status = "SUCCESS" /\ htmlOk
     THEN createSnapshot(siteId, htmlBody)
     ELSE UNCHANGED siteSnapshot
  /\ jobResult' = IF status = "SUCCESS" /\ ~htmlOk THEN Failed ELSE Completed(status)
  /\ jobData' = JobDataOf(siteId)
  /\ UNCHANGED <<site, diffVars, apiVars, workerVars, probeVars>>
\* One job of the worker for an existing, monitored site.  status is the
\* outcome of the HEAD probe; htmlOk says whether a GET for the page gives a
\* snapshot (a GET that fails or is not ok, and a createSnapshot that throws,
\* are caught and leave no row); htmlBody is the page the site serves.  Time
\* is the number of checks recorded.
ProcessJob(siteId, status, htmlOk, htmlBody) ==
  /\ Len(siteCheck) < MaxChecks
  /\ siteCheck' = Append(siteCheck, [siteId |-> siteId, status |-> status])
  /\ updateUptimeState(siteId, status, Len(siteCheck) + 1)
  /\ IF status = "SUCCESS" /\ htmlOk
     THEN createSnapshot(siteId, htmlBody)
     ELSE UNCHANGED siteSnapshot
  /\ jobResult' = Completed(status)
  /\ jobData' = JobDataOf(siteId)
  /\ UNCHANGED <<site, diffVars, apiVars, workerVars, probeVars>>

\* ------------------------------------------------------------ specification
NotComputed == [computed |-> FALSE]
\* the API has created no site, scheduled no job and signed no token
ApiIdle ==
  /\ repeatableJobs = {}
  /\ siteIdCounter = 0
  /\ clock = 0
  /\ tokens = {}
  /\ blacklist = {}
  /\ replies = <<>>
EmptyFingerprint == [scripts |-> <<>>, styles |-> <<>>, images |-> <<>>, metaTags |-> <<>>]
NoInput == [fingerprint |-> EmptyFingerprint, htmlSize |-> 0]

Init ==
  /\ \E n \in 1..MaxThreshold :
       site = [s \in Sites |->
                 [confirmationsRequired |-> IF s = 1 THEN n ELSE DefaultConfirmationsRequired,
                  isMonitoringEnabled |-> TRUE,
                  checkInterval |-> DefaultCheckInterval]]
  /\ siteCheck = <<>>
  /\ siteUptimeState = <<>>
  /\ uptimeEvent = <<>>
  /\ siteSnapshot = <<>>
  /\ jobResult = NoJob
  /\ concurrency = DefaultWorkerConcurrency
  /\ jobs = <<>>
  /\ jobData = NoData
  /\ response = NoResponse
  /\ checkResult = NotComputed
  /\ candidate = NotComputed
  /\ current = NoInput
  /\ previous = NoInput
  /\ diffResult = NotComputed
  /\ swappedResult = NotComputed
  /\ ApiIdle

\* the inputs of one job: a probe that did not succeed, of a site that would
\* or would not serve a page to a GET
FailedProbe ==
  \E siteId \in Sites, status \in SiteCheckStatus \ {"SUCCESS"} :
    \/ ProcessJob(siteId, status, FALSE, Null)
    \/ \E htmlBody \in Bodies : ProcessJob(siteId, status, TRUE, htmlBody)
\* a successful probe whose GET for the page failed or was not ok
SuccessNoSnapshot ==
  \E siteId \in Sites : ProcessJob(siteId, "SUCCESS", FALSE, Null)
\* a successful probe whose GET returned a page
SuccessWithSnapshot ==
  \E siteId \in Sites, htmlBody \in Bodies : ProcessJob(siteId, "SUCCESS", TRUE, htmlBody)

Next == FailedProbe \/ SuccessNoSnapshot \/ SuccessWithSnapshot

Spec == Init /\ [][Next]_vars

\* ------------------------------------------ specification of the snapshots
\* Successful probes of sites that serve pages of different content: the test
\* website's large state, its small state, and an empty response body
LargeBody ==
  [elems |-> <<Meta("description", "", "large"), Meta("", "og:title", "Large"),
               Script("lib0.js"), Script("lib1.js"), Stylesheet("style1.css"),
               Img("pic0.jpg"), Img("pic1.jpg"),
               Script("lib2.js"), Script("lib3.js")>>,
   bytes |-> 15000]
EmptyBody == [elems |-> <<>>, bytes |-> 0]
SnapshotBodies == {SmallBody, LargeBody, EmptyBody}

SnapshotJob ==
  \E siteId \in Sites, htmlBody \in SnapshotBodies :
    ProcessJob(siteId, "SUCCESS", TRUE, htmlBody)

SnapshotNext == SuccessNoSnapshot \/ SnapshotJob

SpecSnapshot == Init /\ [][SnapshotNext]_vars

\* ------------------------------------------- specification of computeDiff
\* computeDiff on every pair of fingerprints and sizes of a bounded set, in
\* both orders
UrlNames == <<"a.js", "b.js", "c.js", "d.js", "e.js">>
Urls == {UrlNames[i] : i \in 1..MaxUrls}
BoundedSeq(S, n) == UNION {[1..k -> S] : k \in 0..n}
Fingerprints ==
  [scripts : BoundedSeq(Urls, MaxListLen),
   styles : BoundedSeq({"style1.css"}, 1),
   images : BoundedSeq({"pic0.jpg"}, 1),
   metaTags : {<<>>, << <<"description", "small">> >>}]
HtmlSizes == {100, 120}
DiffInputs == [fingerprint : Fingerprints, htmlSize : HtmlSizes]

DiffInit ==
  /\ site = [s \in Sites |-> [confirmationsRequired |-> DefaultConfirmationsRequired,
                              isMonitoringEnabled |-> TRUE,
                  checkInterval |-> DefaultCheckInterval]]
  /\ siteCheck = <<>>
  /\ siteUptimeState = <<>>
  /\ uptimeEvent = <<>>
  /\ siteSnapshot = <<>>
  /\ jobResult = NoJob
  /\ concurrency = DefaultWorkerConcurrency
  /\ jobs = <<>>
  /\ jobData = NoData
  /\ response = NoResponse
  /\ checkResult = NotComputed
  /\ candidate = NotComputed
  /\ current \in DiffInputs
  /\ previous \in DiffInputs
  /\ diffResult = NotComputed
  /\ swappedResult = NotComputed
  /\ ApiIdle

ComputeDiffs ==
  /\ diffResult = NotComputed
  /\ diffResult' = computeDiff(current.fingerprint, current.htmlSize, previous)
  /\ swappedResult' = computeDiff(previous.fingerprint, previous.htmlSize, current)
  /\ UNCHANGED <<current, previous, dbVars, workerVars, jobData, probeVars, apiVars>>

DiffNext == ComputeDiffs

SpecDiff == DiffInit /\ [][DiffNext]_vars

\* ------------------------------------ specification of the classification
\* computeDiff on pairs of fingerprints whose script lists add up to
\* MaxScripts URLs (distinct, or one URL repeated), whose meta tags come in
\* both document orders, and whose sizes sit on and around the 10% and 50%
\* thresholds of the previous size
Prefix(list, k) == SubSeq(list, 1, k)
Repeated(x, k) == [i \in 1..k |-> x]
ScriptLists ==
  {Prefix(UrlNames, k) : k \in 0..MaxScripts} \cup {Repeated("z.js", MaxScripts)}
MetaObjects ==
  {<<>>,
   << <<"description", "small">>, <<"keywords", "test">> >>,
   << <<"keywords", "test">>, <<"description", "small">> >>}
ClassifyFingerprints ==
  [scripts : ScriptLists,
   styles : BoundedSeq({"style1.css"}, 1),
   images : BoundedSeq({"pic0.jpg"}, 1),
   metaTags : MetaObjects]
PreviousSizes == {100}
CurrentSizes == {49, 50, 90, 95, 100, 110, 111, 150, 151}

ClassifyInit ==
  /\ site = [s \in Sites |-> [confirmationsRequired |-> DefaultConfirmationsRequired,
                              isMonitoringEnabled |-> TRUE,
                  checkInterval |-> DefaultCheckInterval]]
  /\ siteCheck = <<>>
  /\ siteUptimeState = <<>>
  /\ uptimeEvent = <<>>
  /\ siteSnapshot = <<>>
  /\ jobResult = NoJob
  /\ concurrency = DefaultWorkerConcurrency
  /\ jobs = <<>>
  /\ jobData = NoData
  /\ response = NoResponse
  /\ checkResult = NotComputed
  /\ candidate = NotComputed
  /\ current \in [fingerprint : ClassifyFingerprints, htmlSize : CurrentSizes]
  /\ previous \in [fingerprint : ClassifyFingerprints, htmlSize : PreviousSizes]
  /\ diffResult = NotComputed
  /\ swappedResult = NotComputed
  /\ ApiIdle

ClassifyNext == ComputeDiffs

SpecClassify == ClassifyInit /\ [][ClassifyNext]_vars

\* ------------------------------------------- specification of the worker
\* The job handler statement by statement: a job holds its position (pc) and
\* its locals between two awaits, and up to concurrency jobs are in flight.
\* A scheduled job of a site repeats only after the previous one was taken
\* and its interval has passed; POST /sites/:id/check adds an on-demand job
\* at any time.
JobKinds == {"scheduled", "on-demand"}
\* the probe outcomes drawn for these jobs
WorkerStatuses == {"SUCCESS", "ERROR"}
InFlight(j) == jobs[j].pc \notin {"completed", "failed"}
InFlightJobs == {j \in DOMAIN jobs : InFlight(j)}

\* the locals of a job that recorded its SiteCheck and is about to call
\* updateUptimeState
NewJob(siteId, kind, status, now) ==
  [siteId |-> siteId, kind |-> kind, status |-> status, now |-> now,
   pc |-> "readState", currentState |-> Null, previousSnapshot |-> Null,
   htmlBody |-> Null, stateWritten |-> FALSE, snapshotId |-> NullId]

\* where the handler continues after updateUptimeState returned
AfterStateMachine(status) == IF status = "SUCCESS" THEN "fetchPage" ELSE "completed"
\* faulty variant of AfterPersistenceFailure: the error is caught and logged
AfterPersistenceFailure_Caught(status) ==
  IF status = "SUCCESS" THEN "fetchPage" ELSE "completed"
\* where the handler continues when a call of updateUptimeState throws: the
\* call is outside the try block, so the job fails
AfterPersistenceFailure(status) == "failed"
\* faulty variant of AfterSiteCheck: the snapshot is captured first
AfterSiteCheck_SnapshotFirst(status) ==
  IF status = "SUCCESS" THEN "fetchPage" ELSE "readState"
\* the first statement after prisma.siteCheck.create
AfterSiteCheck(status) == "readState"

\* the job's outcome once it has reached position pc
ResultAt(pc, status) ==
  IF pc = "completed" THEN Completed(status)
  ELSE IF pc = "failed" THEN Failed
  ELSE jobResult

\* job j moves to position pc with the locals of rec
Continue(j, rec, pc) ==
  /\ jobs' = [jobs EXCEPT ![j] = [rec EXCEPT !.pc = pc]]
  /\ jobResult' = ResultAt(pc, rec.status)

\* the worker takes a job of the queue: HEAD probe, prisma.siteCheck.create
StartJob(siteId, kind, status) ==
  /\ Len(jobs) < MaxJobs
  /\ Cardinality(InFlightJobs) < concurrency
  /\ kind = "scheduled" =>
       ~\E j \in InFlightJobs : jobs[j].siteId = siteId /\ jobs[j].kind = "scheduled"
  /\ siteCheck' = Append(siteCheck, [siteId |-> siteId, status |-> status])
  /\ jobs' = Append(jobs, [NewJob(siteId, kind, status, Len(siteCheck) + 1)
                             EXCEPT !.pc = AfterSiteCheck(status)])
  /\ UNCHANGED <<site, siteUptimeState, uptimeEvent, siteSnapshot, jobResult,
                 concurrency, jobData, diffVars, apiVars, probeVars>>

\* const currentState = await prisma.siteUptimeState.findUnique(...)
ReadState(j) ==
  /\ jobs[j].pc = "readState"
  /\ Continue(j, [jobs[j] EXCEPT !.currentState =
                    IF jobs[j].siteId \in DOMAIN siteUptimeState
                    THEN siteUptimeState[jobs[j].siteId] ELSE Null],
              "writeState")
  /\ UNCHANGED <<site, siteCheck, siteUptimeState, uptimeEvent, siteSnapshot,
                 concurrency, jobData, diffVars, apiVars, probeVars>>

\* the first write of updateUptimeState, decided on the row read before:
\* case 1 creates the row (and throws on the primary key when another job
\* created it meanwhile), case 2 creates the event, case 3 updates the row
WriteState(j) ==
  LET job == jobs[j]
      newState == determineState(job.status)
  IN /\ job.pc = "writeState"
     /\ IF job.currentState = Null
        THEN IF job.siteId \in DOMAIN siteUptimeState
             THEN /\ Continue(j, job, AfterPersistenceFailure(job.status))
                  /\ UNCHANGED <<siteUptimeState, uptimeEvent>>
             ELSE /\ InitializeState(job.siteId, newState, job.status, job.now)
                  /\ Continue(j, [job EXCEPT !.stateWritten = TRUE],
                              AfterStateMachine(job.status))
        ELSE IF job.currentState.state # newState
             THEN /\ CreateTransitionEvent(job.siteId, job.currentState.state, newState,
                                           job.status, job.now)
                  /\ Continue(j, job, "updateState")
                  /\ UNCHANGED siteUptimeState
             ELSE /\ UpdateLastCheck(job.siteId, job.status)
                  /\ Continue(j, [job EXCEPT !.stateWritten = TRUE],
                              AfterStateMachine(job.status))
     /\ UNCHANGED <<site, siteCheck, siteSnapshot, concurrency, jobData, diffVars, apiVars, probeVars>>

\* the prisma.siteUptimeState.update that follows the event of case 2
UpdateState(j) ==
  LET job == jobs[j] IN
  /\ job.pc = "updateState"
  /\ UpdateStateRow(job.siteId, determineState(job.status), job.status, job.now)
  /\ Continue(j, [job EXCEPT !.stateWritten = TRUE], AfterStateMachine(job.status))
  /\ UNCHANGED <<site, siteCheck, uptimeEvent, siteSnapshot, concurrency, jobData, diffVars, apiVars, probeVars>>

\* a prisma call of updateUptimeState rejects (connection lost, timeout)
FailPersistence(j) ==
  /\ jobs[j].pc \in {"readState", "writeState", "updateState"}
  /\ Continue(j, jobs[j], AfterPersistenceFailure(jobs[j].status))
  /\ UNCHANGED <<site, siteCheck, siteUptimeState, uptimeEvent, siteSnapshot,
                 concurrency, jobData, diffVars, apiVars, probeVars>>

\* the GET returned a page; createSnapshot looks up the previous snapshot
FetchPage(j, htmlBody) ==
  /\ jobs[j].pc = "fetchPage"
  /\ Continue(j, [jobs[j] EXCEPT !.htmlBody = htmlBody,
                                 !.previousSnapshot = findFirstSnapshot(jobs[j].siteId)],
              "writeSnapshot")
  /\ UNCHANGED <<site, siteCheck, siteUptimeState, uptimeEvent, siteSnapshot,
                 concurrency, jobData, diffVars, apiVars, probeVars>>

\* await prisma.siteSnapshot.create(...), then return { status, ... }
WriteSnapshot(j) ==
  LET job == jobs[j] IN
  /\ job.pc = "writeSnapshot"
  /\ siteSnapshot' = Append(siteSnapshot,
       SnapshotData(Len(siteSnapshot) + 1, job.siteId, job.htmlBody, job.previousSnapshot))
  /\ Continue(j, [job EXCEPT !.snapshotId = Len(siteSnapshot) + 1], "completed")
  /\ UNCHANGED <<site, siteCheck, siteUptimeState, uptimeEvent, concurrency, jobData, diffVars, apiVars, probeVars>>

\* the GET fails or is not ok, or a call of createSnapshot throws: the catch
\* block logs and the job returns
SnapshotFails(j) ==
  /\ jobs[j].pc \in {"fetchPage", "writeSnapshot"}
  /\ Continue(j, jobs[j], "completed")
  /\ UNCHANGED <<site, siteCheck, siteUptimeState, uptimeEvent, siteSnapshot,
                 concurrency, jobData, diffVars, apiVars, probeVars>>

WorkerInit ==
  /\ site = [s \in Sites |-> [confirmationsRequired |-> DefaultConfirmationsRequired,
                              isMonitoringEnabled |-> TRUE,
                  checkInterval |-> DefaultCheckInterval]]
  /\ siteCheck = <<>>
  /\ siteUptimeState = <<>>
  /\ uptimeEvent = <<>>
  /\ siteSnapshot = <<>>
  /\ jobResult = NoJob
  /\ concurrency \in 1..MaxConcurrency
  /\ jobs = <<>>
  /\ jobData = NoData
  /\ response = NoResponse
  /\ checkResult = NotComputed
  /\ candidate = NotComputed
  /\ current = NoInput
  /\ previous = NoInput
  /\ diffResult = NotComputed
  /\ swappedResult = NotComputed
  /\ ApiIdle

WorkerNext ==
  \/ \E siteId \in Sites, kind \in JobKinds, status \in WorkerStatuses :
       StartJob(siteId, kind, status)
  \/ \E j \in DOMAIN jobs : ReadState(j)
  \/ \E j \in DOMAIN jobs : WriteState(j)
  \/ \E j \in DOMAIN jobs : UpdateState(j)
  \/ \E j \in DOMAIN jobs : FailPersistence(j)
  \/ \E j \in DOMAIN jobs, htmlBody \in Bodies : FetchPage(j, htmlBody)
  \/ \E j \in DOMAIN jobs : WriteSnapshot(j)
  \/ \E j \in DOMAIN jobs : SnapshotFails(j)

SpecWorker == WorkerInit /\ [][WorkerNext]_vars

\* -------------------------------------------------- the probe of a check
\* fetch(site.url, { method: "HEAD" }) gives a response with its status and
\* final URL, or throws an error with a name
HttpResponse(status, url) == [threw |-> FALSE, status |-> status, url |-> url]
Thrown(name) == [threw |-> TRUE, name |-> name]
\* response.ok
ResponseOk(r) == r.status >= 200 /\ r.status <= 299
\* the status, httpStatus and finalUrl the handler derives from the probe,
\* with the time it measured
CheckResultOf(r, durationMs) ==
  IF r.threw
  THEN [status |-> IF r.name = "TimeoutError" THEN "TIMEOUT" ELSE "ERROR",
        httpStatus |-> Null, finalUrl |-> Null, durationMs |-> durationMs]
  ELSE [status |-> IF ResponseOk(r) THEN "SUCCESS"
                   ELSE IF r.status = 403 \/ r.status = 401 THEN "BLOCKED"
                   ELSE "ERROR",
        httpStatus |-> r.status, finalUrl |-> r.url, durationMs |-> durationMs]

\* --------------------------------------- specification of determineState
\* determineState on the check results of probes with different HTTP
\* statuses, final URLs and durations
HttpStatuses == {200, 201, 204, 302, 401, 403, 404, 429, 500, 503}
FinalUrls == {"https://site.example/", "https://www.site.example/home"}
Durations == {0, 120, 10000}
ProbeOutcomes ==
  {HttpResponse(c, u) : c \in HttpStatuses, u \in FinalUrls}
  \cup {Thrown("TimeoutError"), Thrown("TypeError")}

ProbeInit ==
  /\ site = [s \in Sites |-> [confirmationsRequired |-> DefaultConfirmationsRequired,
                              isMonitoringEnabled |-> TRUE,
                  checkInterval |-> DefaultCheckInterval]]
  /\ siteCheck = <<>>
  /\ siteUptimeState = <<>>
  /\ uptimeEvent = <<>>
  /\ siteSnapshot = <<>>
  /\ jobResult = NoJob
  /\ concurrency = DefaultWorkerConcurrency
  /\ jobs = <<>>
  /\ jobData = NoData
  /\ response \in [probe : ProbeOutcomes, durationMs : Durations]
  /\ checkResult = NotComputed
  /\ candidate = NotComputed
  /\ current = NoInput
  /\ previous = NoInput
  /\ diffResult = NotComputed
  /\ swappedResult = NotComputed
  /\ ApiIdle

\* const newState = determineState(checkResult.status)
DetermineState ==
  /\ checkResult = NotComputed
  /\ checkResult' = CheckResultOf(response.probe, response.durationMs)
  /\ candidate' = determineState(checkResult'.status)
  /\ UNCHANGED <<dbVars, workerVars, jobData, response, diffVars, apiVars>>

ProbeNext == DetermineState

SpecProbe == ProbeInit /\ [][ProbeNext]_vars

\* ------------------------------------------- the schedule of the checks
\* The queue's repeatable jobs as dryftQueue.add, getRepeatableJobs and
\* removeRepeatableByKey show them: a repeatable job is known by its name, its
\* jobId and its repeat options, which together are its key.
ScheduledJobId(siteId) == [prefix |-> "site", siteId |-> siteId, suffix |-> "scheduled-check"]
RepeatableJob(siteId, every) ==
  [name |-> "check_site", id |-> ScheduledJobId(siteId), every |-> every,
   data |-> [siteId |-> siteId]]

\* startScheduledChecks: dryftQueue.add with jobId and repeat.every
startScheduledChecks(queue, siteId, intervalMinutes) ==
  queue \cup {RepeatableJob(siteId, intervalMinutes * 60 * 1000)}
\* stopScheduledChecks: removeRepeatableByKey for every repeatable job of the site
stopScheduledChecks(queue, siteId) ==
  {job \in queue : ~(job.name = "check_site" /\ job.id = ScheduledJobId(siteId))}
\* faulty variant of updateScheduledChecks: the old schedule is not stopped
updateScheduledChecks_NoStop(queue, siteId, intervalMinutes) ==
  startScheduledChecks(queue, siteId, intervalMinutes)
\* updateScheduledChecks: stop the existing schedule, start the new one
updateScheduledChecks(queue, siteId, intervalMinutes) ==
  startScheduledChecks(stopScheduledChecks(queue, siteId), siteId, intervalMinutes)

\* a field the body of a PATCH does not name
Undefined == [defined |-> FALSE]
\* a field the body names, with its value
Defined(value) == [defined |-> TRUE, value |-> value]
\* the check intervals drawn for the requests (SiteCreate allows 1..1440)
CheckIntervals == {1, DefaultCheckInterval, 1440}
SiteIds == 1..MaxSiteIds

\* POST /sites: prisma.site.create, then startScheduledChecks if enabled
CreateSite(checkInterval, isMonitoringEnabled) ==
  LET id == siteIdCounter + 1
      row == [confirmationsRequired |-> DefaultConfirmationsRequired,
              isMonitoringEnabled |-> isMonitoringEnabled,
              checkInterval |-> checkInterval]
  IN /\ siteIdCounter < MaxSiteIds
     /\ siteIdCounter' = id
     /\ site' = [s \in DOMAIN site \cup {id} |-> IF s = id THEN row ELSE site[s]]
     /\ repeatableJobs' =
          IF row.isMonitoringEnabled
          THEN startScheduledChecks(repeatableJobs, id, row.checkInterval)
          ELSE repeatableJobs
     /\ UNCHANGED <<siteCheck, siteUptimeState, uptimeEvent, siteSnapshot, jobResult,
                    workerVars, jobData, probeVars, diffVars, authVars>>

\* PATCH /sites/:id of an existing site: prisma.site.update, then the
\* schedule is updated or stopped if the interval or the flag changed
UpdateSite(id, checkInterval, isMonitoringEnabled) ==
  /\ id \in DOMAIN site
  /\ LET existingSite == site[id]
         updated == [existingSite EXCEPT
                       !.checkInterval =
                          IF checkInterval # Undefined THEN checkInterval.value ELSE @,
                       !.isMonitoringEnabled =
                          IF isMonitoringEnabled # Undefined
                          THEN isMonitoringEnabled.value ELSE @]
         intervalChanged ==
           /\ checkInterval # Undefined
           /\ checkInterval.value # existingSite.checkInterval
         monitoringChanged ==
           /\ isMonitoringEnabled # Undefined
           /\ isMonitoringEnabled.value # existingSite.isMonitoringEnabled
     IN /\ site' = [site EXCEPT ![id] = updated]
        /\ repeatableJobs' =
             IF intervalChanged \/ monitoringChanged
             THEN IF updated.isMonitoringEnabled
                  THEN updateScheduledChecks(repeatableJobs, id, updated.checkInterval)
                  ELSE stopScheduledChecks(repeatableJobs, id)
             ELSE repeatableJobs
  /\ UNCHANGED <<siteCheck, siteUptimeState, uptimeEvent, siteSnapshot, jobResult,
                 siteIdCounter, workerVars, jobData, probeVars, diffVars, authVars>>

\* DELETE /sites/:id of an existing site: stopScheduledChecks, then
\* prisma.site.delete
DeleteSite(id) ==
  /\ id \in DOMAIN site
  /\ repeatableJobs' = stopScheduledChecks(repeatableJobs, id)
  /\ site' = [s \in DOMAIN site \ {id} |-> site[s]]
  /\ UNCHANGED <<siteCheck, siteUptimeState, uptimeEvent, siteSnapshot, jobResult,
                 siteIdCounter, workerVars, jobData, probeVars, diffVars, authVars>>

ScheduleInit ==
  /\ site = <<>>
  /\ siteCheck = <<>>
  /\ siteUptimeState = <<>>
  /\ uptimeEvent = <<>>
  /\ siteSnapshot = <<>>
  /\ jobResult = NoJob
  /\ concurrency = DefaultWorkerConcurrency
  /\ jobs = <<>>
  /\ jobData = NoData
  /\ response = NoResponse
  /\ checkResult = NotComputed
  /\ candidate = NotComputed
  /\ current = NoInput
  /\ previous = NoInput
  /\ diffResult = NotComputed
  /\ swappedResult = NotComputed
  /\ ApiIdle

CreateSites ==
  \E checkInterval \in CheckIntervals, isMonitoringEnabled \in BOOLEAN :
    CreateSite(checkInterval, isMonitoringEnabled)
UpdateSites ==
  \E id \in SiteIds, checkInterval \in {Defined(n) : n \in CheckIntervals} \cup {Undefined} :
    \E isMonitoringEnabled \in {Defined(b) : b \in BOOLEAN} \cup {Undefined} :
      UpdateSite(id, checkInterval, isMonitoringEnabled)
DeleteSites == \E id \in SiteIds : DeleteSite(id)

ScheduleNext == CreateSites \/ UpdateSites \/ DeleteSites

SpecSchedule == ScheduleInit /\ [][ScheduleNext]_vars

\* ------------------------------------------ specification of the handler
\* The whole job handler, one job at a time, for job data of every shape and
\* for sites that exist or not and have monitoring enabled or not.
\* job.data as it can sit in the queue: { siteId } of a site (which may have
\* been deleted since), an empty siteId, a siteId that is no string, no siteId
JobPayloads ==
  {JobDataOf(s) : s \in Sites}
  \cup {[siteId |-> StringValue(0, NullId)],
        [siteId |-> [type |-> "number"]],
        [url |-> StringValue(1, NullId)]}

\* faulty variant of safeParse: the empty string passes
safeParse_AllowEmpty(data) ==
  /\ "siteId" \in DOMAIN data
  /\ data.siteId.type = "string"
\* JobData.safeParse(job.data).success for z.object({ siteId: z.string().min(1) })
safeParse(data) ==
  /\ "siteId" \in DOMAIN data
  /\ data.siteId.type = "string"
  /\ data.siteId.length >= 1

\* faulty variant of findUniqueSite: a missing site is taken as a new one
findUniqueSite_Default(siteId) ==
  IF siteId \in DOMAIN site THEN site[siteId]
  ELSE [confirmationsRequired |-> DefaultConfirmationsRequired, isMonitoringEnabled |-> TRUE,
                  checkInterval |-> DefaultCheckInterval]
\* prisma.site.findUnique({ where: { id: siteId } })
findUniqueSite(siteId) == IF siteId \in DOMAIN site THEN site[siteId] ELSE Null

\* faulty variant of ShouldSkip: the flag is not looked at
ShouldSkip_Never(siteRow) == FALSE
\* if (site.isMonitoringEnabled === false)
ShouldSkip(siteRow) == siteRow.isMonitoringEnabled = FALSE

\* the handler ends here with this outcome and has written nothing
EndWith(outcome) ==
  /\ jobResult' = outcome
  /\ UNCHANGED <<site, siteCheck, siteUptimeState, uptimeEvent, siteSnapshot,
                 diffVars, apiVars, workerVars, probeVars>>

\* the handler on job.data = data; probe is what the HEAD request gives
HandleJob(data, probe, htmlOk, htmlBody) ==
  IF ~safeParse(data)
  THEN /\ jobData' = data
       /\ EndWith(FailedWith("invalid_job_payload"))
  ELSE LET siteId == data.siteId.site
           siteRow == findUniqueSite(siteId)
       IN IF siteRow = Null
          THEN /\ jobData' = data
               /\ EndWith(FailedWith("site_not_found"))
          ELSE IF ShouldSkip(siteRow)
               THEN /\ jobData' = data
                    /\ EndWith(Completed("SKIPPED"))
               ELSE ProcessJob(siteId, CheckResultOf(probe, 0).status, htmlOk, htmlBody)

\* PATCH /sites/:id with isMonitoringEnabled
SetMonitoring(siteId, enabled) == UpdateSite(siteId, Undefined, Defined(enabled))

HandlerProbes ==
  {HttpResponse(200, "https://site.example/"), HttpResponse(403, "https://site.example/"),
   Thrown("TimeoutError")}

HandlerInit ==
  /\ \E existing \in SUBSET Sites :
       /\ repeatableJobs =
            {RepeatableJob(s, DefaultCheckInterval * 60 * 1000) : s \in existing}
       /\ site = [s \in existing |-> [confirmationsRequired |-> DefaultConfirmationsRequired,
                                   isMonitoringEnabled |-> TRUE,
                  checkInterval |-> DefaultCheckInterval]]
  /\ siteCheck = <<>>
  /\ siteUptimeState = <<>>
  /\ uptimeEvent = <<>>
  /\ siteSnapshot = <<>>
  /\ jobResult = NoJob
  /\ concurrency = DefaultWorkerConcurrency
  /\ jobs = <<>>
  /\ jobData = NoData
  /\ response = NoResponse
  /\ checkResult = NotComputed
  /\ candidate = NotComputed
  /\ current = NoInput
  /\ previous = NoInput
  /\ diffResult = NotComputed
  /\ swappedResult = NotComputed
  /\ siteIdCounter = NumSites
  /\ clock = 0
  /\ tokens = {}
  /\ blacklist = {}
  /\ replies = <<>>

HandleJobs ==
  /\ Len(siteCheck) < MaxHandled
  /\ \E data \in JobPayloads, probe \in HandlerProbes :
       \/ HandleJob(data, probe, FALSE, Null)
       \/ \E htmlBody \in Bodies : HandleJob(data, probe, TRUE, htmlBody)

SetMonitorings == \E siteId \in Sites, enabled \in BOOLEAN : SetMonitoring(siteId, enabled)

HandlerNext == HandleJobs \/ SetMonitorings

SpecHandler == HandlerInit /\ [][HandlerNext]_vars

\* ------------------------------------------------- sessions and logout
\* A token is known by its payload: jti (left out by the login of the version
\* before logout was added) and exp, the second from which jwtVerify rejects it.
Token(jti, exp) == [jti |-> jti, exp |-> exp]
\* the keys blacklist:<jti> that have not expired at time t
LiveKeys(keys, t) == {key \in keys : key.expiresAt > t}
\* redis.setex(`blacklist:${jti}`, ttl, "1") at time t
Setex(keys, jti, ttl, t) ==
  {key \in keys : key.jti # jti} \cup {[jti |-> jti, expiresAt |-> t + ttl]}
\* redis.get(`blacklist:${jti}`) at the current time
Blacklisted(jti) == \E key \in LiveKeys(blacklist, clock) : key.jti = jti

\* authenticate: jwtVerify, then the blacklist for a token with a jti
authenticate(token) ==
  IF clock >= token.exp THEN "unauthorized"
  ELSE IF token.jti # Undefined /\ Blacklisted(token.jti.value) THEN "token_revoked"
  ELSE "ok"

\* the reply to a request on an authenticated route, with the time at which
\* its preHandler ran
Reply(route, token, code, at) == [route |-> route, token |-> token, code |-> code, at |-> at]

\* POST /auth/login with valid credentials: a token with a fresh jti, for 7 days
Login ==
  LET jti == Cardinality({token \in tokens : token.jti # Undefined}) + 1 IN
  /\ jti <= MaxTokens
  /\ tokens' = tokens \cup {Token(Defined(jti), clock + ExpiresIn)}
  /\ UNCHANGED <<dbVars, workerVars, jobData, probeVars, diffVars, scheduleVars,
                 clock, blacklist, replies>>

\* an authenticated route other than logout (GET /sites) with this token
Request(token) ==
  /\ Len(replies) < MaxReplies
  /\ replies' = Append(replies,
       Reply("sites", token, IF authenticate(token) = "ok" THEN 200 ELSE 401, clock))
  /\ UNCHANGED <<dbVars, workerVars, jobData, probeVars, diffVars, scheduleVars,
                 clock, tokens, blacklist>>

\* POST /auth/logout with this token; elapsed is the time that passes between
\* the preHandler and Date.now() in the handler
Logout(token, elapsed) ==
  LET now == clock + elapsed
      ttl == token.exp - now
  IN /\ Len(replies) < MaxReplies
     /\ now <= MaxClock
     /\ IF authenticate(token) # "ok"
        THEN /\ replies' = Append(replies, Reply("logout", token, 401, clock))
             /\ UNCHANGED <<clock, blacklist>>
        ELSE /\ replies' = Append(replies, Reply("logout", token, 200, clock))
             /\ clock' = now
             /\ blacklist' =
                  IF token.jti # Undefined /\ ttl > 0
                  THEN LiveKeys(Setex(blacklist, token.jti.value, ttl, now), now)
                  ELSE LiveKeys(blacklist, now)
     /\ UNCHANGED <<dbVars, workerVars, jobData, probeVars, diffVars, scheduleVars, tokens>>

\* a second passes; Redis drops the keys that expire
Tick ==
  /\ clock < MaxClock
  /\ clock' = clock + 1
  /\ blacklist' = LiveKeys(blacklist, clock + 1)
  /\ UNCHANGED <<dbVars, workerVars, jobData, probeVars, diffVars, scheduleVars,
                 tokens, replies>>

\* a token signed by the login of the version before, without jti
LegacyToken == Token(Undefined, ExpiresIn)

AuthInit ==
  /\ site = <<>>
  /\ siteCheck = <<>>
  /\ siteUptimeState = <<>>
  /\ uptimeEvent = <<>>
  /\ siteSnapshot = <<>>
  /\ jobResult = NoJob
  /\ concurrency = DefaultWorkerConcurrency
  /\ jobs = <<>>
  /\ jobData = NoData
  /\ response = NoResponse
  /\ checkResult = NotComputed
  /\ candidate = NotComputed
  /\ current = NoInput
  /\ previous = NoInput
  /\ diffResult = NotComputed
  /\ swappedResult = NotComputed
  /\ repeatableJobs = {}
  /\ siteIdCounter = 0
  /\ clock = 0
  /\ tokens \in {{}, {LegacyToken}}
  /\ blacklist = {}
  /\ replies = <<>>

Requests == \E token \in tokens : Request(token)
Logouts == \E token \in tokens, elapsed \in {0, 1} : Logout(token, elapsed)

AuthNext == Login \/ Requests \/ Logouts \/ Tick

SpecAuth == AuthInit /\ [][AuthNext]_vars

\* ================================================================== claims
Threshold(s) == site[s].confirmationsRequired
HasState(s) == s \in DOMAIN siteUptimeState
\* the candidate state the design assigns to a probe outcome
CandidateOf(status) == IF status \in {"ERROR", "TIMEOUT", "BLOCKED"} THEN "DOWN" ELSE "UP"
\* the outcomes of the probes of site s, oldest first
StatusesOf(s, checks) ==
  LET own == SelectSeq(checks, LAMBDA c : c.siteId = s) IN
  [i \in 1..Len(own) |-> own[i].status]
EventsOf(s, events) == SelectSeq(events, LAMBDA e : e.siteId = s)
\* this step is one evaluation of a probe of site s
Evaluated(s) ==
  /\ Len(siteCheck') = Len(siteCheck) + 1
  /\ siteCheck'[Len(siteCheck')].siteId = s
ProbeStatus == siteCheck'[Len(siteCheck')].status
EventsAdded == Len(uptimeEvent') - Len(uptimeEvent)
SetMax(S) == CHOOSE x \in S : \A y \in S : y <= x
\* the time of the check that confirmed the last transition of s (0: none yet)
LastTransitionAt(s, events) ==
  SetMax({0} \cup {events[i].checkedAt : i \in {j \in 1..Len(events) : events[j].siteId = s}})
\* the length of the run of candidate-DOWN probes of s that ends with the
\* newest check in checks, counted since the last confirmed transition of s
\* (or since its first probe)
DownRun(s, checks, events) ==
  LET own == {i \in 1..Len(checks) :
                checks[i].siteId = s /\ i > LastTransitionAt(s, events)}
      lastUp == SetMax({0} \cup {i \in own : CandidateOf(checks[i].status) = "UP"})
  IN Cardinality({i \in own : i > lastUp})

\* C1 (confirmation monotonicity): an evaluation of a probe of a site in state
\* UP with confirmationsRequired = N changes the state to DOWN if and only if
\* the probe is the Nth consecutive candidate-DOWN probe since the site's last
\* confirmed transition (or since its first probe).
C1_ConfirmationMonotonicity ==
  [][\A s \in Sites :
       (Evaluated(s) /\ HasState(s) /\ siteUptimeState[s].state = "UP")
       => ((siteUptimeState'[s].state = "DOWN")
           <=> (CandidateOf(ProbeStatus) = "DOWN"
                /\ DownRun(s, siteCheck', uptimeEvent) = Threshold(s)))]_vars

\* C2 (no spontaneous first-probe DOWN): a site with confirmationsRequired >= 2
\* whose only probe so far had a candidate-DOWN outcome has state UP.
C2_FirstProbeNeverDown ==
  \A s \in Sites :
    LET st == StatusesOf(s, siteCheck) IN
    (Threshold(s) >= 2 /\ Len(st) = 1 /\ CandidateOf(st[1]) = "DOWN")
    => (HasState(s) /\ siteUptimeState[s].state = "UP")

\* C3 (counter exclusivity): in every SiteUptimeState row, consecutiveFailures
\* and consecutiveSuccesses are both >= 0 and at least one of them is 0.
C3_CounterExclusivity ==
  \A s \in DOMAIN siteUptimeState :
    /\ siteUptimeState[s].consecutiveFailures >= 0
    /\ siteUptimeState[s].consecutiveSuccesses >= 0
    /\ \/ siteUptimeState[s].consecutiveFailures = 0
       \/ siteUptimeState[s].consecutiveSuccesses = 0
\* a row that has seen failed and successful probes and a recorded transition
C3_Witness ==
  \E s \in DOMAIN siteUptimeState :
    LET st == StatusesOf(s, siteCheck) IN
    /\ Len(st) >= 3
    /\ \E i, j \in 1..Len(st) : st[i] = "SUCCESS" /\ st[j] # "SUCCESS"
    /\ Len(EventsOf(s, uptimeEvent)) >= 1

\* C4 (reference scenario): with confirmationsRequired = 2 and no prior state,
\* the probes ERROR, ERROR, SUCCESS, SUCCESS give: after 1, UP with
\* consecutiveFailures = 1 and no event; after 2, DOWN with
\* consecutiveFailures = 0 and one event UP->DOWN; after 3, DOWN with
\* consecutiveSuccesses = 1 and no new event; after 4, UP with
\* consecutiveSuccesses = 0 and a second event DOWN->UP.
C4_ReferenceScenario ==
  \A s \in Sites :
    LET st == StatusesOf(s, siteCheck)
        ev == EventsOf(s, uptimeEvent)
        row == siteUptimeState[s]
    IN Threshold(s) = 2 =>
       /\ st = <<"ERROR">> =>
            HasState(s) /\ row.state = "UP" /\ row.consecutiveFailures = 1 /\ Len(ev) = 0
       /\ st = <<"ERROR", "ERROR">> =>
            /\ HasState(s) /\ row.state = "DOWN" /\ row.consecutiveFailures = 0
            /\ Len(ev) = 1 /\ ev[1].fromState = "UP" /\ ev[1].toState = "DOWN"
       /\ st = <<"ERROR", "ERROR", "SUCCESS">> =>
            HasState(s) /\ row.state = "DOWN" /\ row.consecutiveSuccesses = 1 /\ Len(ev) = 1
       /\ st = <<"ERROR", "ERROR", "SUCCESS", "SUCCESS">> =>
            /\ HasState(s) /\ row.state = "UP" /\ row.consecutiveSuccesses = 0
            /\ Len(ev) = 2 /\ ev[2].fromState = "DOWN" /\ ev[2].toState = "UP"

\* C5 (debounced recovery): an evaluation of a probe of a site in state DOWN
\* changes the state to UP if and only if the probe is SUCCESS and brings
\* consecutiveSuccesses to at least confirmationsRequired; otherwise the state
\* stays DOWN and no event is recorded.
C5_DebouncedRecovery ==
  [][\A s \in Sites :
       (Evaluated(s) /\ HasState(s) /\ siteUptimeState[s].state = "DOWN")
       => LET confirms == /\ ProbeStatus = "SUCCESS"
                          /\ siteUptimeState[s].consecutiveSuccesses + 1 >= Threshold(s)
          IN /\ (siteUptimeState'[s].state = "UP") <=> confirms
             /\ ~confirms => EventsAdded = 0]_vars

\* C6 (one event per flip): every evaluation appends at most one UptimeEvent;
\* an evaluation of a site that has a state row appends one if and only if the
\* row's state after differs from the state before, and the event is for that
\* site with fromState the state before and toState the state after.
C6_OneEventPerFlip ==
  [][\A s \in Sites :
       Evaluated(s) =>
         /\ EventsAdded \in {0, 1}
         /\ SubSeq(uptimeEvent', 1, Len(uptimeEvent)) = uptimeEvent
         /\ HasState(s) =>
              /\ (EventsAdded = 1) <=> (siteUptimeState'[s].state # siteUptimeState[s].state)
              /\ EventsAdded = 1 =>
                   LET e == uptimeEvent'[Len(uptimeEvent')] IN
                   /\ e.siteId = s
                   /\ e.fromState = siteUptimeState[s].state
                   /\ e.toState = siteUptimeState'[s].state
                   /\ e.fromState # e.toState]_vars
\* both kinds of flip have happened to one site
C6_Witness ==
  \E s \in DOMAIN siteUptimeState :
    LET ev == EventsOf(s, uptimeEvent) IN
    /\ Len(ev) >= 2
    /\ ev[Len(ev)].toState = siteUptimeState[s].state
    /\ Len(StatusesOf(s, siteCheck)) > Len(ev) + 1

\* C7 (no event on initialization): the evaluation that creates a site's state
\* row appends no UptimeEvent, whatever the outcome and the threshold.
C7_NoEventOnInitialization ==
  [][\A s \in Sites :
       (Evaluated(s) /\ ~HasState(s)) => (HasState(s)' /\ uptimeEvent' = uptimeEvent)]_vars
\* rows created by a failed first probe and by a successful one, no event
C7_Witness ==
  /\ \E s \in DOMAIN siteUptimeState :
       /\ CandidateOf(StatusesOf(s, siteCheck)[1]) = "DOWN"
       /\ Len(StatusesOf(s, siteCheck)) = 1
       /\ Threshold(s) = 1
  /\ \E s \in DOMAIN siteUptimeState :
       /\ StatusesOf(s, siteCheck) = <<"SUCCESS">>
  /\ uptimeEvent = <<>>

\* C8 (threshold 1 confirms immediately): for a site with
\* confirmationsRequired = 1 and a state row, a probe whose candidate state
\* differs from the row's state sets the state to the candidate in the same
\* evaluation and appends exactly one UptimeEvent.
C8_ThresholdOneImmediate ==
  [][\A s \in Sites :
       (/\ Evaluated(s) /\ HasState(s) /\ Threshold(s) = 1
        /\ CandidateOf(ProbeStatus) # siteUptimeState[s].state)
       => /\ siteUptimeState'[s].state = CandidateOf(ProbeStatus)
          /\ EventsAdded = 1
          /\ uptimeEvent'[Len(uptimeEvent')].siteId = s]_vars
\* a site with threshold 1 that flipped on each of its last two probes
C8_Witness ==
  \E s \in DOMAIN siteUptimeState :
    LET st == StatusesOf(s, siteCheck)
        ev == EventsOf(s, uptimeEvent)
    IN /\ Threshold(s) = 1
       /\ Len(st) = 3 /\ Len(ev) = 2
       /\ \E i \in 1..3 : st[i] = "BLOCKED"
       /\ \E i \in 1..3 : st[i] = "TIMEOUT"

\* the snapshots reached from snapshot id by following previousSnapshotId,
\* at most fuel of them
RECURSIVE ChainFrom(_, _)
ChainFrom(id, fuel) ==
  IF id = NullId \/ fuel = 0 THEN <<>>
  ELSE <<id>> \o ChainFrom(siteSnapshot[id].previousSnapshotId, fuel - 1)
SnapshotIdsOf(s) == {i \in 1..Len(siteSnapshot) : siteSnapshot[i].siteId = s}

\* C9 (snapshot chain integrity): for every site with snapshots, following
\* previousSnapshotId from its newest snapshot visits each of the site's
\* snapshots exactly once, visits no other site's snapshot, and ends at a
\* snapshot whose previousSnapshotId is null.
C9_SnapshotChainIntegrity ==
  \A s \in Sites :
    SnapshotIdsOf(s) # {} =>
      LET chain == ChainFrom(SetMax(SnapshotIdsOf(s)), Len(siteSnapshot) + 1) IN
      /\ {chain[i] : i \in 1..Len(chain)} = SnapshotIdsOf(s)
      /\ Len(chain) = Cardinality(SnapshotIdsOf(s))
      /\ siteSnapshot[chain[Len(chain)]].previousSnapshotId = NullId
\* two sites with interleaved snapshots, one of them with a chain of two
C9_Witness ==
  /\ Len(siteSnapshot) >= 3
  /\ \E i, j, k \in 1..Len(siteSnapshot) :
       /\ i < j /\ j < k
       /\ siteSnapshot[i].siteId = siteSnapshot[k].siteId
       /\ siteSnapshot[j].siteId # siteSnapshot[i].siteId
       /\ siteSnapshot[k].previousSnapshotId = i

\* C10 (diff symmetry): for fingerprints A and B, the scriptsAdded of
\* computeDiff(current = A, previous = B) equals the scriptsRemoved of
\* computeDiff(current = B, previous = A), and likewise for styles and images.
C10_DiffSymmetry ==
  (diffResult # NotComputed /\ swappedResult # NotComputed) =>
    /\ diffResult.scriptsAdded = swappedResult.scriptsRemoved
    /\ diffResult.stylesAdded = swappedResult.stylesRemoved
    /\ diffResult.imagesAdded = swappedResult.imagesRemoved
\* a repeated script URL is added, another is removed, a style is added
C10_Witness ==
  /\ diffResult # NotComputed
  /\ Len(diffResult.scriptsAdded) = 2
  /\ diffResult.scriptsAdded[1] = diffResult.scriptsAdded[2]
  /\ Len(diffResult.scriptsRemoved) >= 1
  /\ Len(diffResult.stylesAdded) = 1
  /\ Len(swappedResult.imagesRemoved) = 0 /\ Len(current.fingerprint.images) = 1

\* ------------------------------------------------- classification (C11-C14)
\* the URLs of a list, and a meta-tag object as a mapping (its set of
\* name/content pairs)
UrlSet(list) == {list[i] : i \in 1..Len(list)}
MappingOf(obj) == {obj[i] : i \in 1..Len(obj)}
\* no URL added or removed in scripts, styles or images, meta mapping unchanged
NoStructuralDifference(cur, prev) ==
  /\ UrlSet(cur.scripts) = UrlSet(prev.scripts)
  /\ UrlSet(cur.styles) = UrlSet(prev.styles)
  /\ UrlSet(cur.images) = UrlSet(prev.images)
  /\ MappingOf(cur.metaTags) = MappingOf(prev.metaTags)
\* the script URLs present in cur and absent from prev
ScriptsAddedSet(cur, prev) == UrlSet(cur.scripts) \ UrlSet(prev.scripts)
\* |sizeChangePercent| > percent
PercentOver(currentSize, previousSize, percent) ==
  Abs(currentSize - previousSize) * 100 > percent * previousSize
\* the ordered first-match-wins rule
RuleLevel(cur, currentSize, prev, previousSize) ==
  IF NoStructuralDifference(cur, prev) THEN "NONE"
  ELSE IF PercentOver(currentSize, previousSize, 50)
          \/ Cardinality(ScriptsAddedSet(cur, prev)) > 3 THEN "MAJOR"
  ELSE IF PercentOver(currentSize, previousSize, 10)
          \/ Cardinality(ScriptsAddedSet(cur, prev)) >= 1 THEN "MODERATE"
  ELSE "MINOR"
Computed == diffResult # NotComputed

\* C11 (ordered classification): for every current/previous pair with a
\* previous snapshot of positive size the change level is NONE if no URL was
\* added or removed and the meta mapping is unchanged; else MAJOR if
\* |sizeChangePercent| > 50 or more than 3 scripts were added; else MODERATE
\* if |sizeChangePercent| > 10 or at least 1 script was added; else MINOR.
C11_OrderedClassification ==
  (Computed /\ previous.htmlSize > 0) =>
    diffResult.changeLevel =
      RuleLevel(current.fingerprint, current.htmlSize,
                previous.fingerprint, previous.htmlSize)

\* C12 (no structural difference): a pair with no script, style or image URL
\* added or removed and an unchanged meta mapping classifies as NONE whatever
\* the size change is.
C12_NoStructuralDifferenceIsNone ==
  (Computed /\ NoStructuralDifference(current.fingerprint, previous.fingerprint))
  => diffResult.changeLevel = "NONE"

\* C13 (four added scripts): when the current fingerprint has 4 or more script
\* URLs that the previous one does not have, the change level is MAJOR for
\* every size delta.
C13_FourScriptsMajor ==
  (Computed /\ Cardinality(ScriptsAddedSet(current.fingerprint, previous.fingerprint)) >= 4)
  => diffResult.changeLevel = "MAJOR"
\* four distinct script URLs added with a size delta of 0
C13_Witness ==
  /\ Computed
  /\ Cardinality(ScriptsAddedSet(current.fingerprint, previous.fingerprint)) = 4
  /\ current.htmlSize = previous.htmlSize
  /\ diffResult.changeLevel = "MAJOR"

\* C14 (one image removed): a pair whose only structural difference is the
\* removal of one image URL (scripts, styles and meta mapping the same) and
\* whose absolute size change is below 10% of the previous size is MINOR.
OnlyOneImageRemoved(cur, prev) ==
  /\ UrlSet(cur.scripts) = UrlSet(prev.scripts)
  /\ UrlSet(cur.styles) = UrlSet(prev.styles)
  /\ MappingOf(cur.metaTags) = MappingOf(prev.metaTags)
  /\ UrlSet(cur.images) \subseteq UrlSet(prev.images)
  /\ Cardinality(UrlSet(prev.images) \ UrlSet(cur.images)) = 1
C14_OneImageRemovedMinor ==
  (/\ Computed
   /\ OnlyOneImageRemoved(current.fingerprint, previous.fingerprint)
   /\ Abs(current.htmlSize - previous.htmlSize) * 100 < 10 * previous.htmlSize)
  => diffResult.changeLevel = "MINOR"
\* one image removed from a page with scripts and meta tags, 5% smaller
C14_Witness ==
  /\ Computed
  /\ OnlyOneImageRemoved(current.fingerprint, previous.fingerprint)
  /\ current.fingerprint.metaTags = previous.fingerprint.metaTags
  /\ current.fingerprint.metaTags # <<>>
  /\ Len(current.fingerprint.scripts) >= 1
  /\ current.htmlSize = 95 /\ previous.htmlSize = 100
  /\ diffResult.changeLevel = "MINOR"

\* ------------------------------------------------------ first snapshot (C15)
SetMin(S) == CHOOSE x \in S : \A y \in S : x <= y
\* the first snapshot created for site s
FirstSnapshotOf(s) == siteSnapshot[SetMin(SnapshotIdsOf(s))]

\* C15 (first snapshot): the first snapshot created for a site has changeLevel
\* NONE, all six added/removed lists empty, metaTagsChanged false, size diff 0
\* and no previousSnapshotId, whatever its content.
C15_FirstSnapshotIsNone ==
  \A s \in Sites :
    SnapshotIdsOf(s) # {} =>
      LET first == FirstSnapshotOf(s) IN
      /\ first.changeLevel = "NONE"
      /\ first.diffSummary.scriptsAdded = <<>>
      /\ first.diffSummary.scriptsRemoved = <<>>
      /\ first.diffSummary.stylesAdded = <<>>
      /\ first.diffSummary.stylesRemoved = <<>>
      /\ first.diffSummary.imagesAdded = <<>>
      /\ first.diffSummary.imagesRemoved = <<>>
      /\ first.diffSummary.metaTagsChanged = FALSE
      /\ first.diffSummary.htmlSizeDiff = 0
      /\ first.previousSnapshotId = NullId
\* two sites whose first snapshots hold different pages, one of them the large
\* page after another site's snapshot, and a later snapshot that is a change
C15_Witness ==
  /\ \E s, t \in Sites :
       /\ SnapshotIdsOf(s) # {} /\ SnapshotIdsOf(t) # {}
       /\ FirstSnapshotOf(s).htmlBody = LargeBody
       /\ FirstSnapshotOf(s).id > FirstSnapshotOf(t).id
       /\ FirstSnapshotOf(t).htmlBody # LargeBody
  /\ \E i \in 1..Len(siteSnapshot) : siteSnapshot[i].changeLevel = "MAJOR"

\* ------------------------------------------- snapshot step of a job (C16, C17)
\* C16 (no snapshot for a failed probe): an evaluation whose probe outcome is
\* ERROR, TIMEOUT or BLOCKED creates no snapshot and leaves every site's
\* snapshot chain as it was.
C16_NoSnapshotOnFailedProbe ==
  [][\A s \in Sites :
       (Evaluated(s) /\ ProbeStatus \in {"ERROR", "TIMEOUT", "BLOCKED"})
       => siteSnapshot' = siteSnapshot]_vars
\* a site with one snapshot whose later probes failed in all three ways
C16_Witness ==
  \E s \in Sites :
    /\ StatusesOf(s, siteCheck) = <<"SUCCESS", "ERROR", "TIMEOUT", "BLOCKED">>
    /\ Cardinality(SnapshotIdsOf(s)) = 1
    /\ Len(siteSnapshot) = 1

\* C17 (failure isolation): an evaluation of a successful probe whose
\* snapshot step fails (no snapshot row is written) still completes
\* successfully, and its check record, state row and events are those of
\* the state machine alone, as when the snapshot step succeeds.
C17_FailureIsolation ==
  [][\A s \in Sites :
       (Evaluated(s) /\ ProbeStatus = "SUCCESS")
       => /\ jobResult' = Completed("SUCCESS")
          /\ updateUptimeState(s, "SUCCESS", Len(siteCheck) + 1)
          /\ siteSnapshot' = siteSnapshot
             \/ /\ Len(siteSnapshot') = Len(siteSnapshot) + 1
                /\ SubSeq(siteSnapshot', 1, Len(siteSnapshot)) = siteSnapshot]_vars
\* a site that went DOWN and came back UP in an evaluation that wrote no
\* snapshot, and the job completed
C17_Witness ==
  \E s \in DOMAIN siteUptimeState :
    /\ StatusesOf(s, siteCheck) = <<"ERROR", "SUCCESS">>
    /\ siteCheck[Len(siteCheck)].siteId = s
    /\ SnapshotIdsOf(s) = {}
    /\ siteUptimeState[s].state = "UP"
    /\ Len(EventsOf(s, uptimeEvent)) = 1
    /\ jobResult = Completed("SUCCESS")

\* --------------------------------------------- the worker's steps (C18-C20)
\* job j is the only job taken so far for its site
OnlyJobOfSite(j) == \A k \in DOMAIN jobs : k # j => jobs[k].siteId # jobs[j].siteId
\* job j has started its snapshot step (GET, fingerprint, diff, create)
SnapshotStepStarted(j) ==
  jobs[j].pc \in {"fetchPage", "writeSnapshot"} \/ jobs[j].snapshotId # NullId

\* C18 (state machine first): whenever a job has started its snapshot step or
\* has created a snapshot, the state machine's writes for the same probe are
\* complete: the site has a state row, and when no other job touched the site
\* the row shows this probe.
C18_StateMachineBeforeSnapshot ==
  \A j \in DOMAIN jobs :
    SnapshotStepStarted(j) =>
      /\ jobs[j].stateWritten
      /\ jobs[j].siteId \in DOMAIN siteUptimeState
      /\ siteCheck[jobs[j].now] = [siteId |-> jobs[j].siteId, status |-> jobs[j].status]
      /\ OnlyJobOfSite(j) =>
           /\ siteUptimeState[jobs[j].siteId].state = determineState(jobs[j].status)
           /\ siteUptimeState[jobs[j].siteId].lastStatus = jobs[j].status
\* a job that recorded a transition DOWN -> UP and then created a snapshot
C18_Witness ==
  \E j \in DOMAIN jobs :
    /\ jobs[j].snapshotId # NullId
    /\ siteSnapshot[jobs[j].snapshotId].siteId = jobs[j].siteId
    /\ \E i \in 1..Len(uptimeEvent) :
         /\ uptimeEvent[i].checkedAt = jobs[j].now
         /\ uptimeEvent[i].toState = "UP"
    /\ siteUptimeState[jobs[j].siteId].changedAt = jobs[j].now

\* job j is inside updateUptimeState
InStateMachine(j) == jobs[j].pc \in {"readState", "writeState", "updateState"}
\* this step is a call of updateUptimeState by job j that throws: the job
\* leaves the state machine and the call has written nothing
PersistenceFailure(j) ==
  /\ InStateMachine(j)
  /\ jobs'[j] # jobs[j]
  /\ ~InStateMachine(j)'
  /\ ~jobs'[j].stateWritten
  /\ siteUptimeState' = siteUptimeState /\ uptimeEvent' = uptimeEvent

\* C19 (persistence failure is fatal): a persistence failure inside the state
\* machine's read or write makes the job fail; a failed job has not attempted
\* the snapshot step, has written no snapshot, and does nothing further.
C19_PersistenceFailureFailsJob ==
  [][\A j \in DOMAIN jobs :
       /\ PersistenceFailure(j) =>
            /\ jobs'[j].pc = "failed"
            /\ jobResult' = Failed
            /\ siteSnapshot' = siteSnapshot
       /\ jobs[j].pc = "failed" =>
            /\ jobs'[j] = jobs[j]
            /\ jobs[j].htmlBody = Null
            /\ jobs[j].snapshotId = NullId]_vars
\* a successful probe of a DOWN site whose job failed between the event and
\* the state update, and the site has no snapshot
C19_Witness ==
  \E j \in DOMAIN jobs :
    /\ jobs[j].pc = "failed"
    /\ jobs[j].status = "SUCCESS"
    /\ jobResult = Failed
    /\ \E i \in 1..Len(uptimeEvent) : uptimeEvent[i].checkedAt = jobs[j].now
    /\ siteUptimeState[jobs[j].siteId].state = "DOWN"
    /\ SnapshotIdsOf(jobs[j].siteId) = {}

\* job j has read the state row or the latest snapshot of its site and has
\* not yet written the next one
BetweenReadAndWrite(j) == jobs[j].pc \in {"writeState", "updateState", "writeSnapshot"}

\* C20 (per-target mutual exclusion): for every concurrency setting and every
\* mix of scheduled and on-demand jobs, no two jobs of the same site are at
\* the same time between reading the site's state row or latest snapshot and
\* writing the next one.
C20_PerTargetMutualExclusion ==
  \A j, k \in DOMAIN jobs :
    (j # k /\ BetweenReadAndWrite(j) /\ BetweenReadAndWrite(k))
    => jobs[j].siteId # jobs[k].siteId

\* ------------------------------------------ jobs that are not evaluated
\* this step handles a job; its data is jobData'
Handled == <<jobData, jobResult, siteCheck>>' # <<jobData, jobResult, siteCheck>>
\* the stored SiteCheck, SiteUptimeState, UptimeEvent and SiteSnapshot records
Records == <<siteCheck, siteUptimeState, uptimeEvent, siteSnapshot>>
\* the job data names site s by a non-empty string
IsJobFor(data, s) == data = [siteId |-> [type |-> "string", length |-> 1, site |-> s]]
\* the job data has a non-empty string siteId
HasNonEmptySiteId(data) ==
  /\ "siteId" \in DOMAIN data
  /\ data.siteId.type = "string"
  /\ data.siteId.length > 0

\* C21 (disabled monitoring): a job for a site whose monitoring is disabled
\* returns a skipped outcome and creates or changes no SiteCheck,
\* SiteUptimeState, UptimeEvent or SiteSnapshot record.
C21_DisabledIsNoOp ==
  [][\A s \in DOMAIN site :
       (Handled /\ IsJobFor(jobData', s) /\ ~site[s].isMonitoringEnabled)
       => /\ jobResult' = [outcome |-> "completed", status |-> "SKIPPED"]
          /\ Records' = Records]_vars
\* a site with a state row and a snapshot, then disabled, whose job was skipped
C21_Witness ==
  \E s \in DOMAIN site :
    /\ ~site[s].isMonitoringEnabled
    /\ IsJobFor(jobData, s)
    /\ jobResult = [outcome |-> "completed", status |-> "SKIPPED"]
    /\ s \in DOMAIN siteUptimeState
    /\ SnapshotIdsOf(s) # {}

\* ------------------------------------------------ event and state row (C22)
\* the evaluation that took its time stamp at check number n has ended
EvaluationEnded(n) == ~\E j \in InFlightJobs : jobs[j].now = n
\* the state row of s was changed by the evaluation that recorded event e,
\* or by a later one
StateChangedWith(s, e) ==
  /\ s \in DOMAIN siteUptimeState
  /\ \/ /\ siteUptimeState[s].changedAt = e.checkedAt
        /\ siteUptimeState[s].state = e.toState
     \/ siteUptimeState[s].changedAt > e.checkedAt

\* C22 (atomic event and state): once an evaluation has ended, also by a
\* persistence failure in its middle, every UptimeEvent X->Y it recorded goes
\* with a change of the site's state row to Y by the same evaluation, and the
\* last change of a state row that has events is one of these events.
C22_EventAndStateAtomic ==
  \A s \in Sites :
    LET ev == EventsOf(s, uptimeEvent) IN
    /\ \A i \in 1..Len(ev) :
         EvaluationEnded(ev[i].checkedAt) => StateChangedWith(s, ev[i])
    /\ (ev # <<>> /\ \A i \in 1..Len(ev) : EvaluationEnded(ev[i].checkedAt))
       => \E i \in 1..Len(ev) : ev[i].checkedAt = siteUptimeState[s].changedAt

\* ------------------------------------------- the outcome of a job (C23)
\* C23 (outcome contents): the outcome returned by an evaluation contains the
\* resulting state row (state and counters), the UptimeEvent if one was
\* recorded, and, when the snapshot step was attempted, a snapshot summary or
\* a failure reason.
C23_OutcomeContents ==
  (jobResult.outcome = "completed" /\ jobResult.status \in SiteCheckStatus) =>
    /\ {"state", "consecutiveFailures", "consecutiveSuccesses"} \subseteq DOMAIN jobResult
    /\ "event" \in DOMAIN jobResult
    /\ jobResult.status = "SUCCESS" =>
         ("snapshot" \in DOMAIN jobResult \/ "snapshotError" \in DOMAIN jobResult)
\* C23 as the code has it: the outcome returned by an evaluation is the probe
\* status alone, whatever the state machine and the snapshot step did.
C23_OutcomeIsProbeStatus ==
  [][\A s \in Sites :
       Evaluated(s) => jobResult' = [outcome |-> "completed", status |-> ProbeStatus]]_vars
\* an evaluation that recorded a transition and created a snapshot
C23_Witness ==
  \E s \in DOMAIN siteUptimeState :
    /\ StatusesOf(s, siteCheck) = <<"TIMEOUT", "SUCCESS">>
    /\ siteCheck[Len(siteCheck)].siteId = s
    /\ Len(EventsOf(s, uptimeEvent)) = 1
    /\ Cardinality(SnapshotIdsOf(s)) = 1
    /\ jobResult = [outcome |-> "completed", status |-> "SUCCESS"]

\* --------------------------------------------- the candidate state (C24)
\* C24 (candidate state): the candidate state is a function of the status of
\* the check result alone: UP for SUCCESS, DOWN for each of ERROR, TIMEOUT
\* and BLOCKED, for every HTTP status, final URL and duration.
C24_CandidateOfStatusAlone ==
  (checkResult # NotComputed) =>
    /\ checkResult.status \in SiteCheckStatus
    /\ checkResult.status = "SUCCESS" => candidate = "UP"
    /\ checkResult.status \in {"ERROR", "TIMEOUT", "BLOCKED"} => candidate = "DOWN"
\* a slow probe answered 403 at a redirected URL
C24_Witness ==
  /\ checkResult # NotComputed
  /\ checkResult.status = "BLOCKED" /\ checkResult.httpStatus = 403
  /\ checkResult.durationMs = 10000
  /\ checkResult.finalUrl = "https://www.site.example/home"
  /\ candidate = "DOWN"

\* ------------------------------------------------ the fields of a diff
\* C25 (metaTagsChanged): metaTagsChanged is true exactly when the current
\* and the previous meta tags differ as mappings; the same names and
\* contents in any order give false.
C25_MetaTagsChangedIffMappingsDiffer ==
  Computed =>
    (diffResult.metaTagsChanged
       <=> MappingOf(current.fingerprint.metaTags) # MappingOf(previous.fingerprint.metaTags))

\* C26 (added and removed URLs): scriptsAdded holds exactly the script URLs
\* of current that previous does not have, scriptsRemoved exactly those of
\* previous that current does not have, whatever the order of the lists;
\* likewise for styles and images.
C26_AddedAndRemovedAreSetDifferences ==
  Computed =>
    LET cur == current.fingerprint
        prev == previous.fingerprint
    IN /\ UrlSet(diffResult.scriptsAdded) = UrlSet(cur.scripts) \ UrlSet(prev.scripts)
       /\ UrlSet(diffResult.scriptsRemoved) = UrlSet(prev.scripts) \ UrlSet(cur.scripts)
       /\ UrlSet(diffResult.stylesAdded) = UrlSet(cur.styles) \ UrlSet(prev.styles)
       /\ UrlSet(diffResult.stylesRemoved) = UrlSet(prev.styles) \ UrlSet(cur.styles)
       /\ UrlSet(diffResult.imagesAdded) = UrlSet(cur.images) \ UrlSet(prev.images)
       /\ UrlSet(diffResult.imagesRemoved) = UrlSet(prev.images) \ UrlSet(cur.images)
\* a script added in front of the one kept, a style removed, an image added
C26_Witness ==
  /\ Computed
  /\ current.fingerprint.scripts = <<"b.js", "a.js">>
  /\ previous.fingerprint.scripts = <<"a.js">>
  /\ diffResult.scriptsAdded = <<"b.js">> /\ diffResult.scriptsRemoved = <<>>
  /\ diffResult.stylesRemoved = <<"style1.css">>
  /\ diffResult.imagesAdded = <<"pic0.jpg">>

\* ------------------------------------------- independence of sites (C27)
\* job j takes a step
Acting(j) == j \in DOMAIN jobs' /\ (j \notin DOMAIN jobs \/ jobs'[j] # jobs[j])
RowOf(s, rows) == IF s \in DOMAIN rows THEN rows[s] ELSE Null
SnapshotsOf(s, snapshots) == SelectSeq(snapshots, LAMBDA x : x.siteId = s)
\* the ids of the snapshots of s among snapshots
IdsOf(s, snapshots) == {snapshots[i].id : i \in {k \in 1..Len(snapshots) : snapshots[k].siteId = s}}

\* C27 (independence of sites): in every interleaving of jobs, a step of a
\* job of site a leaves the state row, the events and the snapshots of every
\* other site as they were, and what the job reads and writes (the state row
\* it found, the previous snapshot it found, the event and the snapshot it
\* adds) belongs to site a.
C27_CrossSiteIndependence ==
  [][\A j \in DOMAIN jobs' :
       Acting(j) =>
         LET a == jobs'[j].siteId IN
         /\ \A t \in Sites \ {a} :
              /\ RowOf(t, siteUptimeState') = RowOf(t, siteUptimeState)
              /\ EventsOf(t, uptimeEvent') = EventsOf(t, uptimeEvent)
              /\ SnapshotsOf(t, siteSnapshot') = SnapshotsOf(t, siteSnapshot)
         /\ (j \in DOMAIN jobs /\ jobs[j].pc = "readState" /\ jobs'[j].pc = "writeState")
              => jobs'[j].currentState = RowOf(a, siteUptimeState)
         /\ jobs'[j].previousSnapshot # Null => jobs'[j].previousSnapshot.siteId = a
         /\ Len(uptimeEvent') > Len(uptimeEvent) =>
              uptimeEvent'[Len(uptimeEvent')].siteId = a
         /\ Len(siteSnapshot') > Len(siteSnapshot) =>
              /\ siteSnapshot'[Len(siteSnapshot')].siteId = a
              /\ siteSnapshot'[Len(siteSnapshot')].previousSnapshotId
                   \in IdsOf(a, siteSnapshot) \cup {NullId}]_vars
\* two jobs of different sites in flight together: the later one has written
\* its state row and its snapshot while the earlier one, its state row
\* written, is about to write its snapshot
C27_Witness ==
  /\ DOMAIN jobs = {1, 2}
  /\ jobs[1].siteId # jobs[2].siteId
  /\ jobs[1].pc = "writeSnapshot" /\ jobs[1].stateWritten
  /\ jobs[2].pc = "completed" /\ jobs[2].snapshotId # NullId
  /\ {jobs[1].siteId, jobs[2].siteId} \subseteq DOMAIN siteUptimeState

\* --------------------------------------------- jobs that are not run
\* C28 (malformed payload): a job whose data has no non-empty string siteId
\* fails with the error invalid_job_payload, and no Site, SiteCheck,
\* SiteUptimeState, UptimeEvent or SiteSnapshot record changes.
C28_MalformedPayloadFails ==
  [][(Handled /\ ~HasNonEmptySiteId(jobData'))
       => /\ jobResult' = [outcome |-> "failed", error |-> "invalid_job_payload"]
          /\ Records' = Records
          /\ site' = site]_vars
\* records exist, and the job with the empty siteId failed
C28_Witness ==
  /\ jobData = [siteId |-> [type |-> "string", length |-> 0, site |-> NullId]]
  /\ jobResult = [outcome |-> "failed", error |-> "invalid_job_payload"]
  /\ Len(siteCheck) >= 1 /\ Len(siteSnapshot) >= 1

\* C29 (site not found): a job that names a site that does not exist fails
\* with the error site_not_found, without a check and without a write.
C29_MissingSiteFails ==
  [][\A s \in Sites \ DOMAIN site :
       (Handled /\ IsJobFor(jobData', s))
       => /\ jobResult' = [outcome |-> "failed", error |-> "site_not_found"]
          /\ Records' = Records]_vars
\* checks of an existing site are stored, and the job of a missing site failed
C29_Witness ==
  \E s \in Sites \ DOMAIN site :
    /\ IsJobFor(jobData, s)
    /\ jobResult = [outcome |-> "failed", error |-> "site_not_found"]
    /\ Len(siteCheck) >= 1
    /\ \A i \in 1..Len(siteCheck) : siteCheck[i].siteId # s

\* ------------------------------------------------- append-only records (C30)
IsPrefix(p, q) == Len(p) <= Len(q) /\ SubSeq(q, 1, Len(p)) = p
\* C30 (append-only): an evaluation changes and removes no UptimeEvent and
\* no SiteSnapshot stored before, and adds at most one of each.
C30_AppendOnly ==
  [][/\ IsPrefix(uptimeEvent, uptimeEvent')
     /\ Len(uptimeEvent') <= Len(uptimeEvent) + 1
     /\ IsPrefix(siteSnapshot, siteSnapshot')
     /\ Len(siteSnapshot') <= Len(siteSnapshot) + 1]_vars
\* a site with three events and two snapshots
C30_Witness ==
  \E s \in Sites :
    /\ Len(EventsOf(s, uptimeEvent)) = 3
    /\ Cardinality(SnapshotIdsOf(s)) = 2

\* ------------------------------------------------ flapping and counters
\* st alternates strictly between ERROR and SUCCESS
Alternating(st) ==
  /\ \A i \in 1..Len(st) : st[i] \in {"ERROR", "SUCCESS"}
  /\ \A i \in 1..(Len(st) - 1) : st[i] # st[i + 1]

\* C31 (flap suppression): a site with confirmationsRequired >= 2 whose
\* probes so far, from its first one, alternate strictly between ERROR and
\* SUCCESS has state UP and no UptimeEvent.
C31_FlapSuppression ==
  \A s \in Sites :
    LET st == StatusesOf(s, siteCheck) IN
    (Threshold(s) >= 2 /\ Len(st) >= 1 /\ Alternating(st))
    => /\ HasState(s) /\ siteUptimeState[s].state = "UP"
       /\ EventsOf(s, uptimeEvent) = <<>>

\* C32 (counters and transitions): an evaluation that records a transition
\* leaves consecutiveFailures and consecutiveSuccesses both 0; the evaluation
\* that creates the row and every evaluation without transition leave exactly
\* one of the two counters non-zero.
C32_CountersZeroOnlyAfterTransition ==
  [][\A s \in Sites :
       Evaluated(s) =>
         LET row == siteUptimeState'[s]
             bothZero == row.consecutiveFailures = 0 /\ row.consecutiveSuccesses = 0
             oneNonZero == (row.consecutiveFailures = 0) # (row.consecutiveSuccesses = 0)
         IN /\ HasState(s)'
            /\ IF HasState(s) /\ siteUptimeState'[s].state # siteUptimeState[s].state
               THEN bothZero
               ELSE oneNonZero]_vars

\* ------------------------------------------- jobs of one site that overlap
\* C33 (linear snapshot chain): in every interleaving of jobs, no two
\* SiteSnapshot rows of one site have the same previousSnapshotId; in
\* particular at most one of them has none.
C33_NoBranchingSnapshotChain ==
  \A i, k \in 1..Len(siteSnapshot) :
    (i # k /\ siteSnapshot[i].siteId = siteSnapshot[k].siteId)
    => siteSnapshot[i].previousSnapshotId # siteSnapshot[k].previousSnapshotId

\* job j found no state row and is at, or past, the create of the row
DecidedToCreate(j) ==
  /\ jobs[j].currentState = Null
  /\ jobs[j].pc = "writeState" \/ jobs[j].stateWritten
\* C34 (no lost update, no duplicate event): two overlapping jobs of one site
\* never both set out to create the site's state row, and never record two
\* UptimeEvents in a row with the same fromState and toState.
C34_NoLostUpdateNoDuplicateEvent ==
  /\ \A j1, j2 \in DOMAIN jobs :
       (j1 # j2 /\ jobs[j1].siteId = jobs[j2].siteId)
       => ~(DecidedToCreate(j1) /\ DecidedToCreate(j2))
  /\ \A s \in Sites :
       LET ev == EventsOf(s, uptimeEvent) IN
       \A i \in 1..(Len(ev) - 1) :
         ~(ev[i].fromState = ev[i + 1].fromState /\ ev[i].toState = ev[i + 1].toState)

\* C35 (retry after a failed state write): once a job has failed in
\* updateUptimeState, the stored records hold nothing of its probe: no
\* SiteCheck row, no UptimeEvent, and no state row written by it.
C35_FailedWriteLeavesNoTrace ==
  [][\A j \in DOMAIN jobs :
       (jobs[j].pc \in {"writeState", "updateState"} /\ jobs'[j].pc = "failed") =>
         /\ ~\E i \in 1..Len(siteCheck') :
               i = jobs[j].now /\ siteCheck'[i].siteId = jobs[j].siteId
         /\ ~\E i \in 1..Len(uptimeEvent') : uptimeEvent'[i].checkedAt = jobs[j].now
         /\ \A s \in DOMAIN siteUptimeState' :
              siteUptimeState'[s].changedAt # jobs[j].now]_vars

\* ------------------------------------------- events and state history (C36)
\* C36 (event log and state): for every site, after jobs run one at a time,
\* the UptimeEvents in creation order start with UP->DOWN, each event's
\* fromState is the toState of the one before and differs from its own
\* toState, and the state of the row is the toState of the last event, or UP
\* when the site has no event.
C36_EventLogMatchesStateHistory ==
  \A s \in DOMAIN siteUptimeState :
    LET ev == EventsOf(s, uptimeEvent) IN
    /\ \A i \in 1..Len(ev) :
         /\ ev[i].fromState # ev[i].toState
         /\ ev[i].fromState = IF i = 1 THEN "UP" ELSE ev[i - 1].toState
    /\ siteUptimeState[s].state = IF Len(ev) = 0 THEN "UP" ELSE ev[Len(ev)].toState

\* ----------------------------------------------- repeated script URLs (C37)
\* C37 (distinct added scripts): with a previous snapshot of positive size
\* and a size change of at most 50%, a page whose added script URLs are
\* between one and three distinct URLs, however often it references them,
\* is MODERATE.
C37_DistinctScriptsCounted ==
  Computed =>
    LET added == ScriptsAddedSet(current.fingerprint, previous.fingerprint) IN
    (/\ previous.htmlSize > 0
     /\ ~PercentOver(current.htmlSize, previous.htmlSize, 50)
     /\ Cardinality(added) >= 1 /\ Cardinality(added) <= 3)
    => diffResult.changeLevel = "MODERATE"

\* ------------------------------------------------ schedule consistency (C38)
\* the repeatable check jobs of site s
ScheduledJobsOf(s) ==
  {job \in repeatableJobs : job.name = "check_site" /\ job.data.siteId = s}
LoggedOutAt(i) == replies[i].route = "logout" /\ replies[i].code = 200
====
